---- MODULE Spec2Model ----
(***************************************************************************)
(* Model of class IzNetwork of src/Dynamical_Complexity.py: a network of   *)
(* Izhikevich neurons with per-synapse conduction delays, advanced one     *)
(* millisecond per update() call, spikes being delivered through the       *)
(* cylindrical accumulator array _X.                                       *)
(*                                                                         *)
(* Representation.                                                         *)
(*  - Two instances of the class exist side by side (Insts); every field   *)
(*    of the class is a variable mapping an instance to the field's value. *)
(*  - Neurons are numbered 1..N here (0..N-1 in the source); the rows of   *)
(*    _X keep the source's numbering 0.._Dmax-1.                           *)
(*  - The source computes in float64.  Here every real quantity (v, u, c,  *)
(*    d, I, W, X) is an integer number of 1/Scale units, a and b are       *)
(*    integer hundredths, and each product or multiplication by dt is      *)
(*    rounded down (\div).  Threshold comparisons, resets, additions into  *)
(*    the accumulator and the order of the operations are those of the     *)
(*    source.                                                              *)
(*  - An attribute the constructor does not create (_D, _W, _a, _b, _c,    *)
(*    _d) is NoAttr until its setter stores it; reading it raises          *)
(*    AttributeError.                                                      *)
(*  - A numpy argument is a record [dtype, val]: val is a sequence (a      *)
(*    vector) or a sequence of rows (a matrix).                            *)
(***************************************************************************)
EXTENDS Integers, Sequences, FiniteSets, TLC

\* ------------------------------------------------------------------ bounds
MaxN == 2
MaxDmax == 2
MaxDelay == 3
MaxSteps == 2
MaxRun == 5
MaxReconf == 1
MaxLog == 3
MaxOne == 13

\* --------------------------------------------------------- program constants
Scale == 100
SubSteps == 10
Threshold == 30
RestV == -65
RestU == -1

Insts == {1, 2}

\* ------------------------------------------------------------ numpy helpers
\* an array as an explicit tuple of its elements
Vec(f) == f \o <<>>

Zeros(n) == Vec([i \in 1..n |-> 0])

NoAttr == [set |-> FALSE, val |-> <<>>]

Attr(x) == [set |-> TRUE, val |-> x]

\* D.shape / W.shape of a matrix given as a sequence of rows
Rows(m) == Len(m)

Cols(m) == IF Len(m) = 0 THEN 0 ELSE Len(m[1])

ShapeIs(m, n) == Rows(m) = n /\ Cols(m) = n

\* an n-by-k matrix of the entry x
ConstMatrix(n, k, x) == Vec([i \in 1..n |-> Vec([j \in 1..k |-> x])])

\* ------------------------------------------------------- argument candidates
\* Values are in 1/Scale units.  Drive is an external current of 100, large
\* enough to make a resting neuron fire within the millisecond; Wt is a
\* synaptic weight of the same size.
Drive == 100 * Scale

Wt == 100 * Scale

DriveFirst(n) == [i \in 1..n |-> IF i = 1 THEN Drive ELSE 0]

CurrentArgs(n) ==
  { [dtype |-> "float", val |-> Zeros(n)],
    [dtype |-> "float", val |-> DriveFirst(n)],
    [dtype |-> "float", val |-> Zeros(n + 1)] }

\* single edge 1 -> 2, and all-to-all
WEdge(n) == Vec([i \in 1..n |-> Vec([j \in 1..n |-> IF i = 1 /\ j = 2 THEN Wt ELSE 0])])

WFull(n) == ConstMatrix(n, n, Wt)

\* all-to-all with a weight of 5, too small to make the target fire
WeakWt == 5 * Scale

WWeak(n) == ConstMatrix(n, n, WeakWt)

WeightArgs(n) ==
  { [dtype |-> "float", val |-> WEdge(n)],
    [dtype |-> "float", val |-> WFull(n)],
    [dtype |-> "float", val |-> ConstMatrix(n + 1, n, 0)] }

DUniform(n, k) == ConstMatrix(n, n, k)

\* delay 1 within a neuron and between neurons of equal parity, 2 otherwise
DMixed(n) == Vec([i \in 1..n |-> Vec([j \in 1..n |-> 1 + ((i + j) % 2)])])

\* delay 0 from a neuron to itself, as np.zeros(..., dtype=int) leaves it
DZeroDiagonal(n) == Vec([i \in 1..n |-> Vec([j \in 1..n |-> IF i = j THEN 0 ELSE 1])])

DelayArgs(n) ==
  { [dtype |-> "int", val |-> DUniform(n, k)] : k \in 1..MaxDelay }
  \cup
  { [dtype |-> "int", val |-> DMixed(n)],
    [dtype |-> "int", val |-> DZeroDiagonal(n)],
    [dtype |-> "float", val |-> DUniform(n, 1)],
    [dtype |-> "int", val |-> ConstMatrix(n, n + 1, 1)] }

\* odd neurons excitatory, (a, b, c, d) = (0.02, 0.2, -65, 8), even neurons
\* inhibitory, (0.1, 0.2, -65, 2): the values of lines 385-388 and 396-399
VecA(n) == [i \in 1..n |-> IF i % 2 = 1 THEN 2 ELSE 10]

VecB(n) == [i \in 1..n |-> 20]

VecC(n) == [i \in 1..n |-> -65 * Scale]

VecD(n) == [i \in 1..n |-> IF i % 2 = 1 THEN 8 * Scale ELSE 2 * Scale]

ParamArgs(n) ==
  { [dtype |-> "float", val |-> <<VecA(n), VecB(n), VecC(n), VecD(n)>>],
    [dtype |-> "float", val |-> <<VecA(n), VecB(n), VecC(n + 1), VecD(n)>>] }

\* constant external currents for one neuron: none, below what makes it fire
\* within a few milliseconds, and 25 and more
DriveLevels == {0, 10, 25, 30, 40, 60, 100}

LevelArgs == { [dtype |-> "float", val |-> <<x * Scale>>] : x \in DriveLevels }

NoArg == [dtype |-> "none", val |-> <<>>]

\* ------------------------------------------------------------------- state
VARIABLES
  alive,      \* the constructor returned an object
  N,          \* self._N
  Dmax,       \* self._Dmax: the constructor's Dmax + 1, the number of rows of _X
  X,          \* self._X: row s (0.._Dmax-1) is a vector of N accumulators
  I,          \* self._I
  cursor,     \* self._cursor
  lastFired,  \* self._lastFired
  v,          \* self.v
  u,          \* self.u
  D,          \* self._D
  W,          \* self._W
  a,          \* self._a
  b,          \* self._b
  c,          \* self._c
  d,          \* self._d
  op,         \* the call made by the last step: instance, method, argument, outcome
  hist,       \* per instance, one record per update() call that read the accumulator:
              \* cursor, row read, input current, state after lines 150-151 (v0, u0),
              \* neurons those lines changed (reset), neurons found fired, returned or not
  trace,      \* per instance, the states after each pass of the loop of the last such call
  reconf,     \* per instance, setters of _D, _W, _a.._d stored after the first update()
  log         \* per instance, the calls made (recorded by SpecTwo only)

fields == <<alive, N, Dmax, X, I, cursor, lastFired, v, u, D, W, a, b, c, d>>

vars == <<alive, N, Dmax, X, I, cursor, lastFired, v, u, D, W, a, b, c, d,
          op, hist, trace, reconf, log>>

\* every field of instance e, as one value
FieldsOf(e) ==
  <<alive[e], N[e], Dmax[e], X[e], I[e], cursor[e], lastFired[e], v[e], u[e],
    D[e], W[e], a[e], b[e], c[e], d[e]>>

FieldsOfNext(e) ==
  <<alive'[e], N'[e], Dmax'[e], X'[e], I'[e], cursor'[e], lastFired'[e], v'[e], u'[e],
    D'[e], W'[e], a'[e], b'[e], c'[e], d'[e]>>

\* ------------------------------------------------------------- constructor
\* np.zeros and np.ones raise ValueError on a negative dimension; nothing else
\* in __init__ looks at N or Dmax.
CtorRaises(n, dm) == n < 0 \/ dm + 1 < 0

NArgs == (-1)..MaxN

DmaxArgs == (-2)..MaxDmax

\* mutant of Construct: v and u created with np.zeros
ConstructAllZeros(n, dm) ==
  IF CtorRaises(n, dm)
    THEN [alive |-> FALSE, N |-> n, Dmax |-> dm + 1, X |-> <<>>, I |-> <<>>,
          cursor |-> 0, lastFired |-> <<>>, v |-> <<>>, u |-> <<>>]
    ELSE [alive |-> TRUE, N |-> n, Dmax |-> dm + 1,
          X |-> [s \in 0..dm |-> Zeros(n)],
          I |-> Zeros(n),
          cursor |-> 0,
          lastFired |-> [i \in 1..n |-> FALSE],
          v |-> Zeros(n),
          u |-> Zeros(n)]

Construct(n, dm) ==
  IF CtorRaises(n, dm)
    THEN [alive |-> FALSE, N |-> n, Dmax |-> dm + 1, X |-> <<>>, I |-> <<>>,
          cursor |-> 0, lastFired |-> <<>>, v |-> <<>>, u |-> <<>>]
    ELSE [alive |-> TRUE, N |-> n, Dmax |-> dm + 1,
          X |-> [s \in 0..dm |-> Zeros(n)],
          I |-> Zeros(n),
          cursor |-> 0,
          lastFired |-> [i \in 1..n |-> FALSE],
          v |-> [i \in 1..n |-> RestV * Scale],
          u |-> [i \in 1..n |-> RestU * Scale]]

InitWith(n, dm) ==
  LET o == Construct(n, dm) IN
  /\ alive = [e \in Insts |-> o.alive]
  /\ N = [e \in Insts |-> o.N]
  /\ Dmax = [e \in Insts |-> o.Dmax]
  /\ X = [e \in Insts |-> o.X]
  /\ I = [e \in Insts |-> o.I]
  /\ cursor = [e \in Insts |-> o.cursor]
  /\ lastFired = [e \in Insts |-> o.lastFired]
  /\ v = [e \in Insts |-> o.v]
  /\ u = [e \in Insts |-> o.u]
  /\ D = [e \in Insts |-> NoAttr]
  /\ W = [e \in Insts |-> NoAttr]
  /\ a = [e \in Insts |-> NoAttr]
  /\ b = [e \in Insts |-> NoAttr]
  /\ c = [e \in Insts |-> NoAttr]
  /\ d = [e \in Insts |-> NoAttr]
  /\ op = [inst |-> 0, name |-> "__init__", arg |-> NoArg, err |-> "none", ret |-> {}]
  /\ hist = [e \in Insts |-> <<>>]
  /\ trace = [e \in Insts |-> <<>>]
  /\ reconf = [e \in Insts |-> 0]
  /\ log = [e \in Insts |-> <<>>]

Init == \E n \in NArgs, dm \in DmaxArgs : InitWith(n, dm)

\* ------------------------------------------------------------------ setters
Called(e, name, arg, err, ret) ==
  op' = [inst |-> e, name |-> name, arg |-> arg, err |-> err, ret |-> ret]

\* a setter of stored configuration may run freely before the first update()
\* of the instance and MaxReconf times after it
MayStore(e) == hist[e] = <<>> \/ reconf[e] < MaxReconf

Stored(e) ==
  reconf' = [reconf EXCEPT ![e] = IF hist[e] = <<>> THEN @ ELSE @ + 1]

\* mutant of AnyBelowHalf: (D < 0).any()
AnyNegative(m) == \E i \in 1..Rows(m) : \E j \in 1..Len(m[i]) : m[i][j] < 0

\* (D < 0.5).any()
AnyBelowHalf(m) == \E i \in 1..Rows(m) : \E j \in 1..Len(m[i]) : 2 * m[i][j] < 1

setDelaysError(n, arg) ==
  IF ~ShapeIs(arg.val, n) THEN "Delay matrix must be N-by-N."
  ELSE IF arg.dtype # "int" THEN "Delays must be integer numbers."
  ELSE IF AnyBelowHalf(arg.val) THEN "Delays must be strictly positive."
  ELSE "none"

setDelays(e, arg) ==
  LET err == setDelaysError(N[e], arg) IN
  /\ alive[e]
  /\ Called(e, "setDelays", arg, err, {})
  /\ IF err = "none"
       THEN D' = [D EXCEPT ![e] = Attr(arg.val)] /\ Stored(e)
       ELSE UNCHANGED <<D, reconf>>
  /\ UNCHANGED <<alive, N, Dmax, X, I, cursor, lastFired, v, u, W, a, b, c, d, hist, trace>>

setWeightsError(n, arg) ==
  IF ~ShapeIs(arg.val, n) THEN "Weight matrix must be N-by-N." ELSE "none"

\* mutant of setWeights: storing new weights empties the accumulator
setWeightsClearsAccumulator(e, arg) ==
  LET err == setWeightsError(N[e], arg) IN
  /\ alive[e]
  /\ Called(e, "setWeights", arg, err, {})
  /\ IF err = "none"
       THEN /\ W' = [W EXCEPT ![e] = Attr(arg.val)]
            /\ X' = [X EXCEPT ![e] = [s \in DOMAIN X[e] |-> Zeros(N[e])]]
            /\ Stored(e)
       ELSE UNCHANGED <<W, X, reconf>>
  /\ UNCHANGED <<alive, N, Dmax, I, cursor, lastFired, v, u, D, a, b, c, d, hist, trace>>

setWeights(e, arg) ==
  LET err == setWeightsError(N[e], arg) IN
  /\ alive[e]
  /\ Called(e, "setWeights", arg, err, {})
  /\ IF err = "none"
       THEN W' = [W EXCEPT ![e] = Attr(arg.val)] /\ Stored(e)
       ELSE UNCHANGED <<W, reconf>>
  /\ UNCHANGED <<alive, N, Dmax, X, I, cursor, lastFired, v, u, D, a, b, c, d, hist, trace>>

setCurrentError(n, arg) ==
  IF Len(arg.val) # n THEN "Current vector must be of size N." ELSE "none"

setCurrent(e, arg) ==
  LET err == setCurrentError(N[e], arg) IN
  /\ alive[e]
  /\ Called(e, "setCurrent", arg, err, {})
  /\ IF err = "none"
       THEN I' = [I EXCEPT ![e] = arg.val]
       ELSE UNCHANGED I
  /\ UNCHANGED <<alive, N, Dmax, X, cursor, lastFired, v, u, D, W, a, b, c, d, hist, trace, reconf>>

setParametersError(n, arg) ==
  IF <<Len(arg.val[1]), Len(arg.val[2]), Len(arg.val[3]), Len(arg.val[4])>> # <<n, n, n, n>>
    THEN "Parameter vectors must be of size N."
    ELSE "none"

\* mutant of setParametersStore: each vector checked and stored in turn
setParametersStoreInTurn(old, n, arg) ==
  IF Len(arg.val[1]) # n THEN old
  ELSE IF Len(arg.val[2]) # n THEN <<Attr(arg.val[1]), old[2], old[3], old[4]>>
  ELSE IF Len(arg.val[3]) # n THEN <<Attr(arg.val[1]), Attr(arg.val[2]), old[3], old[4]>>
  ELSE IF Len(arg.val[4]) # n
    THEN <<Attr(arg.val[1]), Attr(arg.val[2]), Attr(arg.val[3]), old[4]>>
  ELSE <<Attr(arg.val[1]), Attr(arg.val[2]), Attr(arg.val[3]), Attr(arg.val[4])>>

\* the four attributes after the call
setParametersStore(old, n, arg) ==
  IF setParametersError(n, arg) = "none"
    THEN <<Attr(arg.val[1]), Attr(arg.val[2]), Attr(arg.val[3]), Attr(arg.val[4])>>
    ELSE old

setParameters(e, arg) ==
  LET err == setParametersError(N[e], arg)
      new == setParametersStore(<<a[e], b[e], c[e], d[e]>>, N[e], arg) IN
  /\ alive[e]
  /\ Called(e, "setParameters", arg, err, {})
  /\ a' = [a EXCEPT ![e] = new[1]]
  /\ b' = [b EXCEPT ![e] = new[2]]
  /\ c' = [c EXCEPT ![e] = new[3]]
  /\ d' = [d EXCEPT ![e] = new[4]]
  /\ IF err = "none" THEN Stored(e) ELSE UNCHANGED reconf
  /\ UNCHANGED <<alive, N, Dmax, X, I, cursor, lastFired, v, u, D, W, hist, trace>>

\* ------------------------------------------------------------------- update
\* lines 150-151: neurons that fired last timestep
ResetV(vv, cc, lf) == Vec([i \in 1..Len(vv) |-> IF lf[i] THEN cc[i] ELSE vv[i]])

\* mutant of ResetU: line 151 left out
ResetUNoIncrement(uu, dd, lf) == uu

ResetU(uu, dd, lf) == Vec([i \in 1..Len(uu) |-> IF lf[i] THEN uu[i] + dd[i] ELSE uu[i]])

\* mutant of ReadSlot: the row after the cursor's
ReadSlotAhead(Xe, cur, dmax) == Xe[(cur + 1) % dmax]

\* line 154: the row of the accumulator under the cursor, and the input current
ReadSlot(Xe, cur, dmax) == Xe[cur % dmax]

\* mutant of TotalInput: the external current left out
TotalInputNoExternal(Ie, row) == row

TotalInput(Ie, row) == Vec([i \in 1..Len(row) |-> Ie[i] + row[i]])

\* mutant of DeltaV: the term 5*v left out
DeltaVNoLinearTerm(vi, ui, Ii) ==
  ((4 * vi * vi) \div (100 * Scale) + 140 * Scale - ui + Ii) \div SubSteps

\* line 164: dt*(0.04*v*v + 5*v + 140 - u + I), in 1/Scale units
DeltaV(vi, ui, Ii) ==
  ((4 * vi * vi) \div (100 * Scale) + 5 * vi + 140 * Scale - ui + Ii) \div SubSteps

\* line 165: dt*(a*(b*v - u)), a and b in hundredths
DeltaU(vi, ui, ai, bi) ==
  (ai * ((bi * vi) \div 100 - ui)) \div (100 * SubSteps)

\* mutant of SubStep: line 165 applied to every neuron, fired or not
SubStepFreezeVOnly(st, Itot, aa, bb) ==
  LET nv == Vec([i \in 1..Len(st.v) |->
               IF st.fired[i] THEN st.v[i]
               ELSE st.v[i] + DeltaV(st.v[i], st.u[i], Itot[i])])
      nu == Vec([i \in 1..Len(st.u) |->
               st.u[i] + DeltaU(st.v[i], st.u[i], aa[i], bb[i])])
  IN [v |-> nv, u |-> nu,
      fired |-> Vec([i \in 1..Len(st.v) |-> st.fired[i] \/ nv[i] > Threshold * Scale])]

\* lines 161-166: one pass of the loop; st is [v, u, fired]
SubStep(st, Itot, aa, bb) ==
  LET nv == Vec([i \in 1..Len(st.v) |->
               IF st.fired[i] THEN st.v[i]
               ELSE st.v[i] + DeltaV(st.v[i], st.u[i], Itot[i])])
      nu == Vec([i \in 1..Len(st.u) |->
               IF st.fired[i] THEN st.u[i]
               ELSE st.u[i] + DeltaU(st.v[i], st.u[i], aa[i], bb[i])])
  IN [v |-> nv, u |-> nu,
      fired |-> Vec([i \in 1..Len(st.v) |-> st.fired[i] \/ nv[i] > Threshold * Scale])]

\* lines 159-166: the states after each of the k passes of the loop
RECURSIVE EulerTrace(_, _, _, _, _)
EulerTrace(st, Itot, aa, bb, k) ==
  IF k = 0 THEN <<>>
  ELSE LET s1 == SubStep(st, Itot, aa, bb)
       IN <<s1>> \o EulerTrace(s1, Itot, aa, bb, k - 1)

\* line 171: np.where(fired)[0], ascending
FiredIdx(fired) == SelectSeq([i \in 1..Len(fired) |-> i], LAMBDA i : fired[i])

\* mutant of SetLastFired: the new mask or-ed into the old one
SetLastFiredOr(old, fired) == Vec([i \in 1..Len(fired) |-> old[i] \/ fired[i]])

\* line 172
SetLastFired(old, fired) == fired

\* mutant of Clamp: line 173 left out
NoClamp(vv, fired) == vv

\* line 173
Clamp(vv, fired) == Vec([i \in 1..Len(vv) |-> IF fired[i] THEN Threshold * Scale ELSE vv[i]])

\* mutant of ScatterFrom: = in place of +=
ScatterFromAssign(Xe, i, cur, dmax, Dm, Wm) ==
  [s \in DOMAIN Xe |->
     Vec([j \in 1..Len(Xe[s]) |->
        IF (cur + Dm[i][j]) % dmax = s THEN Wm[i][j] ELSE Xe[s][j]])]

\* line 183, for one source neuron i
ScatterFrom(Xe, i, cur, dmax, Dm, Wm) ==
  [s \in DOMAIN Xe |->
     Vec([j \in 1..Len(Xe[s]) |->
        Xe[s][j] + (IF (cur + Dm[i][j]) % dmax = s THEN Wm[i][j] ELSE 0)])]

\* lines 182-183
RECURSIVE Scatter(_, _, _, _, _, _)
Scatter(Xe, idx, cur, dmax, Dm, Wm) ==
  IF idx = <<>> THEN Xe
  ELSE Scatter(ScatterFrom(Xe, Head(idx), cur, dmax, Dm, Wm), Tail(idx), cur, dmax, Dm, Wm)

\* mutant of ClearSlot: line 186 left out
KeepSlot(Xe, cur, dmax) == Xe

\* line 186
ClearSlot(Xe, cur, dmax) == [Xe EXCEPT ![cur % dmax] = Zeros(Len(Xe[cur % dmax]))]

\* mutant of NextCursor: the cursor kept within the rows of the accumulator
NextCursorWrapped(cur) == (cur + 1) % Dmax[1]

\* line 187
NextCursor(cur) == cur + 1

\* mutant of ClearCurrent: line 176 left out
KeepCurrent(Ie) == Ie

\* line 176
ClearCurrent(Ie) == Zeros(Len(Ie))

\* mutant of Accumulator: one array shared by every instance of the class
AccumulatorOfClass(e) == X[1]

\* self._X: the array line 59 creates for the instance
Accumulator(e) == X[e]

\* update() from line 154 on, given the state after lines 150-151 and the
\* states of the loop: at is the line that raises (0: none), the fields are
\* those assigned before that line
UpdateFrom(e, v0, u0, xread, Itot, steps) ==
  LET fin == steps[SubSteps]
      idx == FiredIdx(fin.fired)
      v1  == Clamp(fin.v, fin.fired)
      rec == [cursor |-> cursor[e], xread |-> xread, itot |-> Itot,
              fired |-> {idx[k] : k \in 1..Len(idx)},
              v0 |-> v0, u0 |-> u0,
              reset |-> {i \in 1..N[e] : v0[i] # v[e][i] \/ u0[i] # u[e][i]}]
      mask == SetLastFired(lastFired[e], fin.fired)
  IN
  IF idx # <<>> /\ (~D[e].set \/ ~W[e].set)
    THEN [err |-> "AttributeError", at |-> 183, v |-> v1, u |-> fin.u,
          lastFired |-> mask, I |-> ClearCurrent(I[e]),
          trace |-> steps, rec |-> rec @@ [done |-> FALSE]]
    ELSE [err |-> "none", at |-> 0, v |-> v1, u |-> fin.u,
          lastFired |-> mask, I |-> ClearCurrent(I[e]),
          X |-> ClearSlot(Scatter(Accumulator(e), idx, cursor[e], Dmax[e], D[e].val, W[e].val),
                          cursor[e], Dmax[e]),
          cursor |-> NextCursor(cursor[e]),
          ret |-> rec.fired,
          trace |-> steps, rec |-> rec @@ [done |-> TRUE]]

\* update() on instance e, as far as it gets
UpdateOutcome(e) ==
  IF ~c[e].set
    THEN [err |-> "AttributeError", at |-> 150]
  ELSE
  LET v0 == ResetV(v[e], c[e].val, lastFired[e])
      u0 == ResetU(u[e], d[e].val, lastFired[e])
  IN
  IF Dmax[e] = 0
    THEN [err |-> "ZeroDivisionError", at |-> 154, v |-> v0, u |-> u0]
  ELSE
  LET xread == ReadSlot(Accumulator(e), cursor[e], Dmax[e])
      Itot  == TotalInput(I[e], xread)
      st0   == [v |-> v0, u |-> u0, fired |-> Vec([i \in 1..N[e] |-> FALSE])]
  IN CHOOSE o \in { UpdateFrom(e, v0, u0, xread, Itot, steps) :
                      steps \in {EulerTrace(st0, Itot, a[e].val, b[e].val, SubSteps)} } : TRUE

update(e) ==
  \E o \in {UpdateOutcome(e)} :
  /\ alive[e]
  /\ Called(e, "update", NoArg, o.err, IF o.at = 0 THEN o.ret ELSE {})
  /\ IF o.at = 150
       THEN UNCHANGED <<v, u, I, lastFired, X, cursor, hist, trace>>
     ELSE IF o.at = 154
       THEN /\ v' = [v EXCEPT ![e] = o.v]
            /\ u' = [u EXCEPT ![e] = o.u]
            /\ UNCHANGED <<I, lastFired, X, cursor, hist, trace>>
     ELSE IF o.at = 183
       THEN /\ v' = [v EXCEPT ![e] = o.v]
            /\ u' = [u EXCEPT ![e] = o.u]
            /\ lastFired' = [lastFired EXCEPT ![e] = o.lastFired]
            /\ I' = [I EXCEPT ![e] = o.I]
            /\ hist' = [hist EXCEPT ![e] = Append(@, o.rec)]
            /\ trace' = [trace EXCEPT ![e] = o.trace]
            /\ UNCHANGED <<X, cursor>>
     ELSE /\ v' = [v EXCEPT ![e] = o.v]
          /\ u' = [u EXCEPT ![e] = o.u]
          /\ lastFired' = [lastFired EXCEPT ![e] = o.lastFired]
          /\ I' = [I EXCEPT ![e] = o.I]
          /\ X' = [X EXCEPT ![e] = o.X]
          /\ cursor' = [cursor EXCEPT ![e] = o.cursor]
          /\ hist' = [hist EXCEPT ![e] = Append(@, o.rec)]
          /\ trace' = [trace EXCEPT ![e] = o.trace]
  /\ UNCHANGED <<alive, N, Dmax, D, W, a, b, c, d, reconf>>

\* ------------------------------------------------------------ specification
\* One engine, any call at any time: every method on instance 1 with any of
\* the candidate arguments, MaxSteps calls of update() that read the accumulator.
Next ==
  \/ \E arg \in DelayArgs(N[1]) : MayStore(1) /\ setDelays(1, arg) /\ UNCHANGED log
  \/ \E arg \in WeightArgs(N[1]) : MayStore(1) /\ setWeights(1, arg) /\ UNCHANGED log
  \/ \E arg \in CurrentArgs(N[1]) : setCurrent(1, arg) /\ UNCHANGED log
  \/ \E arg \in ParamArgs(N[1]) : MayStore(1) /\ setParameters(1, arg) /\ UNCHANGED log
  \/ Len(hist[1]) < MaxSteps /\ update(1) /\ UNCHANGED log

Spec == Init /\ [][Next]_vars

\* One engine driven as simulate_network drives it (lines 410-423): delays,
\* weights and parameters are set before the first update(), then only
\* setCurrent and update() are called, MaxRun times.
NextRun ==
  \/ \E arg \in DelayArgs(N[1]) : hist[1] = <<>> /\ setDelays(1, arg) /\ UNCHANGED log
  \/ \E arg \in WeightArgs(N[1]) : hist[1] = <<>> /\ setWeights(1, arg) /\ UNCHANGED log
  \/ \E arg \in CurrentArgs(N[1]) : setCurrent(1, arg) /\ UNCHANGED log
  \/ \E arg \in ParamArgs(N[1]) : hist[1] = <<>> /\ setParameters(1, arg) /\ UNCHANGED log
  \/ Len(hist[1]) < MaxRun /\ update(1) /\ UNCHANGED log

SpecRun == Init /\ [][NextRun]_vars

\* Two engines.  Both were constructed with the same N and Dmax and given
\* the same weights, delays and parameters, each by its own setter calls;
\* then setCurrent and update() are called on either, in any order, and log
\* records the calls each has received, MaxLog at most.
InitTwo ==
  \E n \in 1..MaxN :
    \E o \in {Construct(n, MaxDmax)} :
      \E dArg \in {[dtype |-> "int", val |-> DMixed(n)]},
         wArg \in {[dtype |-> "float", val |-> WFull(n)]},
         pArg \in {[dtype |-> "float", val |-> <<VecA(n), VecB(n), VecC(n), VecD(n)>>]} :
        /\ setDelaysError(n, dArg) = "none"
        /\ setWeightsError(n, wArg) = "none"
        /\ setParametersError(n, pArg) = "none"
        /\ alive = [e \in Insts |-> o.alive]
        /\ N = [e \in Insts |-> o.N]
        /\ Dmax = [e \in Insts |-> o.Dmax]
        /\ X = [e \in Insts |-> o.X]
        /\ I = [e \in Insts |-> o.I]
        /\ cursor = [e \in Insts |-> o.cursor]
        /\ lastFired = [e \in Insts |-> o.lastFired]
        /\ v = [e \in Insts |-> o.v]
        /\ u = [e \in Insts |-> o.u]
        /\ D = [e \in Insts |-> Attr(dArg.val)]
        /\ W = [e \in Insts |-> Attr(wArg.val)]
        /\ a = [e \in Insts |-> setParametersStore(<<NoAttr, NoAttr, NoAttr, NoAttr>>, n, pArg)[1]]
        /\ b = [e \in Insts |-> setParametersStore(<<NoAttr, NoAttr, NoAttr, NoAttr>>, n, pArg)[2]]
        /\ c = [e \in Insts |-> setParametersStore(<<NoAttr, NoAttr, NoAttr, NoAttr>>, n, pArg)[3]]
        /\ d = [e \in Insts |-> setParametersStore(<<NoAttr, NoAttr, NoAttr, NoAttr>>, n, pArg)[4]]
        /\ op = [inst |-> 0, name |-> "setDelays", arg |-> dArg, err |-> "none", ret |-> {}]
        /\ hist = [e \in Insts |-> <<>>]
        /\ trace = [e \in Insts |-> <<>>]
        /\ reconf = [e \in Insts |-> 0]
        /\ log = [e \in Insts |-> <<>>]

Logged(e) ==
  log' = [log EXCEPT ![e] = Append(@, [name |-> op'.name, arg |-> op'.arg])]

NextTwo ==
  \/ \E e \in Insts : \E arg \in CurrentArgs(N[e]) :
       /\ Len(log[e]) < MaxLog
       /\ setCurrentError(N[e], arg) = "none"
       /\ setCurrent(e, arg)
       /\ Logged(e)
  \/ \E e \in Insts :
       /\ Len(log[e]) < MaxLog
       /\ update(e)
       /\ Logged(e)

SpecTwo == InitTwo /\ [][NextTwo]_vars

\* One isolated neuron with the excitatory parameters (a, b, c, d) =
\* (0.02, 0.2, -65, 8), no synaptic weight, driven as the loop of lines
\* 419-423 drives the network: setCurrent with the same vector before every
\* update(), MaxOne times.  log records the calls.
InitOne ==
  \E dm \in 0..MaxDmax :
    \E o \in {Construct(1, dm)} :
      \E dArg \in {[dtype |-> "int", val |-> DUniform(1, 1)]},
         wArg \in {[dtype |-> "float", val |-> ConstMatrix(1, 1, 0)]},
         pArg \in {[dtype |-> "float", val |-> <<VecA(1), VecB(1), VecC(1), VecD(1)>>]} :
        /\ setDelaysError(1, dArg) = "none"
        /\ setWeightsError(1, wArg) = "none"
        /\ setParametersError(1, pArg) = "none"
        /\ alive = [e \in Insts |-> o.alive]
        /\ N = [e \in Insts |-> o.N]
        /\ Dmax = [e \in Insts |-> o.Dmax]
        /\ X = [e \in Insts |-> o.X]
        /\ I = [e \in Insts |-> o.I]
        /\ cursor = [e \in Insts |-> o.cursor]
        /\ lastFired = [e \in Insts |-> o.lastFired]
        /\ v = [e \in Insts |-> o.v]
        /\ u = [e \in Insts |-> o.u]
        /\ D = [e \in Insts |-> Attr(dArg.val)]
        /\ W = [e \in Insts |-> Attr(wArg.val)]
        /\ a = [e \in Insts |-> setParametersStore(<<NoAttr, NoAttr, NoAttr, NoAttr>>, 1, pArg)[1]]
        /\ b = [e \in Insts |-> setParametersStore(<<NoAttr, NoAttr, NoAttr, NoAttr>>, 1, pArg)[2]]
        /\ c = [e \in Insts |-> setParametersStore(<<NoAttr, NoAttr, NoAttr, NoAttr>>, 1, pArg)[3]]
        /\ d = [e \in Insts |-> setParametersStore(<<NoAttr, NoAttr, NoAttr, NoAttr>>, 1, pArg)[4]]
        /\ op = [inst |-> 0, name |-> "setParameters", arg |-> pArg, err |-> "none", ret |-> {}]
        /\ hist = [e \in Insts |-> <<>>]
        /\ trace = [e \in Insts |-> <<>>]
        /\ reconf = [e \in Insts |-> 0]
        /\ log = [e \in Insts |-> <<>>]

LastLogged(e) == log[e][Len(log[e])]

NextOne ==
  \/ \E arg \in LevelArgs :
       /\ IF log[1] = <<>> THEN TRUE
          ELSE LastLogged(1).name = "update" /\ log[1][1].arg = arg
       /\ setCurrent(1, arg)
       /\ Logged(1)
  \/ /\ IF log[1] = <<>> THEN FALSE ELSE LastLogged(1).name = "setCurrent"
     /\ Len(hist[1]) < MaxOne
     /\ update(1)
     /\ Logged(1)

SpecOne == InitOne /\ [][NextOne]_vars

\* Two neurons joined all-to-all by weak synapses: a spike in flight is read
\* from the accumulator without making its target fire.  The delays are any
\* matrix setDelays accepts, the engine has 2 rows or more, then setCurrent
\* and update() are called, MaxRun times.
InitWrap ==
  \E dm \in 1..MaxDmax :
    \E o \in {Construct(2, dm)} :
      \E dArg \in DelayArgs(2),
         wArg \in {[dtype |-> "float", val |-> WWeak(2)]},
         pArg \in {[dtype |-> "float", val |-> <<VecA(2), VecB(2), VecC(2), VecD(2)>>]} :
        /\ setDelaysError(2, dArg) = "none"
        /\ setWeightsError(2, wArg) = "none"
        /\ setParametersError(2, pArg) = "none"
        /\ alive = [e \in Insts |-> o.alive]
        /\ N = [e \in Insts |-> o.N]
        /\ Dmax = [e \in Insts |-> o.Dmax]
        /\ X = [e \in Insts |-> o.X]
        /\ I = [e \in Insts |-> o.I]
        /\ cursor = [e \in Insts |-> o.cursor]
        /\ lastFired = [e \in Insts |-> o.lastFired]
        /\ v = [e \in Insts |-> o.v]
        /\ u = [e \in Insts |-> o.u]
        /\ D = [e \in Insts |-> Attr(dArg.val)]
        /\ W = [e \in Insts |-> Attr(wArg.val)]
        /\ a = [e \in Insts |-> setParametersStore(<<NoAttr, NoAttr, NoAttr, NoAttr>>, 2, pArg)[1]]
        /\ b = [e \in Insts |-> setParametersStore(<<NoAttr, NoAttr, NoAttr, NoAttr>>, 2, pArg)[2]]
        /\ c = [e \in Insts |-> setParametersStore(<<NoAttr, NoAttr, NoAttr, NoAttr>>, 2, pArg)[3]]
        /\ d = [e \in Insts |-> setParametersStore(<<NoAttr, NoAttr, NoAttr, NoAttr>>, 2, pArg)[4]]
        /\ op = [inst |-> 0, name |-> "setParameters", arg |-> pArg, err |-> "none", ret |-> {}]
        /\ hist = [e \in Insts |-> <<>>]
        /\ trace = [e \in Insts |-> <<>>]
        /\ reconf = [e \in Insts |-> 0]
        /\ log = [e \in Insts |-> <<>>]

NextWrap ==
  \/ \E arg \in CurrentArgs(N[1]) : setCurrent(1, arg) /\ UNCHANGED log
  \/ Len(hist[1]) < MaxRun /\ update(1) /\ UNCHANGED log

SpecWrap == InitWrap /\ [][NextWrap]_vars

\* ------------------------------------------------------ notions of the claims
\* the Dmax given to the constructor
DmaxArg(e) == Dmax[e] - 1

Neurons(e) == IF alive[e] THEN 1..N[e] ELSE {}

Calls(e) == 1..Len(hist[e])

\* update() calls are numbered from 1 here: call t is hist[e][t], made with
\* the cursor at t - 1 when no earlier call was cut short
AllDone(e) == \A t \in Calls(e) : hist[e][t].done /\ hist[e][t].cursor = t - 1

FiredIn(e, i, t) == t \in Calls(e) /\ i \in hist[e][t].fired

RECURSIVE SumSeq(_)
SumSeq(s) == IF s = <<>> THEN 0 ELSE Head(s) + SumSeq(Tail(s))

Configured(e) == alive[e] /\ W[e].set /\ D[e].set /\ c[e].set

LastCall(e) == hist[e][Len(hist[e])]

Returned(e) == op.inst = e /\ op.name = "update" /\ op.err = "none"

\* ----------------------------------------------------------------------- C1
\* W has the single non-zero entry W[src][tgt]
SingleEdge(m, src, tgt) ==
  /\ m[src][tgt] # 0
  /\ \A i \in 1..Len(m) : \A j \in 1..Len(m) : <<i, j>> # <<src, tgt>> => m[i][j] = 0

\* C1: in a 2-neuron engine whose only connection is src -> tgt, of weight W
\* and delay k in 1..Dmax, the accumulator value read for tgt in update() call
\* t is W when src fired in call t - k and 0 in every other call: a firing of
\* src is delivered k calls later, once, and neither earlier nor later nor
\* after the buffer has wrapped.
C1_DelayedDelivery ==
  \A src, tgt \in Neurons(1) :
    ( /\ Configured(1) /\ N[1] = 2 /\ src # tgt
      /\ SingleEdge(W[1].val, src, tgt)
      /\ D[1].val[src][tgt] \in 1..DmaxArg(1) )
    => /\ AllDone(1)
       /\ \A t \in Calls(1) :
            hist[1][t].xread[tgt] =
              IF FiredIn(1, src, t - D[1].val[src][tgt]) THEN W[1].val[src][tgt] ELSE 0

\* the source fired in call 1 and in no other, the target read W in call 1 + k, and the
\* calls went on until the slot had come under the cursor again (Dmax + 1
\* calls later), where 0 was read
C1_Witness ==
  /\ Configured(1) /\ N[1] = 2 /\ SingleEdge(W[1].val, 1, 2)
  /\ D[1].val[1][2] \in 1..DmaxArg(1)
  /\ LET k == D[1].val[1][2] IN
     /\ Len(hist[1]) >= 1 + k + Dmax[1]
     /\ hist[1][1].fired = {1}
     /\ \A t \in 2..Len(hist[1]) : 1 \notin hist[1][t].fired
     /\ hist[1][1 + k].xread[2] = W[1].val[1][2]
     /\ hist[1][1 + k + Dmax[1]].xread[2] = 0

\* ----------------------------------------------------------------------- C2
\* what the delay line owes neuron j in call t: the weights of the sources
\* that fired D[i][j] calls before
Owed(e, j, t) ==
  SumSeq([i \in Neurons(e) |->
            IF FiredIn(e, i, t - D[e].val[i][j]) THEN W[e].val[i][j] ELSE 0])

DelaysInRange(e) ==
  \A i, j \in Neurons(e) : D[e].val[i][j] \in 1..DmaxArg(e)

\* C2: when every delay is in 1..Dmax, the accumulator value read for neuron
\* j in update() call t is the sum of W[i][j] over the neurons i that fired in
\* call t - D[i][j]; contributions for different future calls do not disturb
\* one another.
C2_DelayLine ==
  (Configured(1) /\ DelaysInRange(1))
  => /\ AllDone(1)
     /\ \A t \in Calls(1) : \A j \in Neurons(1) : hist[1][t].xread[j] = Owed(1, j, t)

\* with delays 1 and 2 out of the same neuron, a call where a neuron read the
\* sum of two weights, sent from different calls, and a non-zero value was read
\* both 1 and 2 calls after a firing
C2_Witness ==
  /\ Configured(1) /\ DelaysInRange(1) /\ N[1] = 2
  /\ D[1].val[1][1] = 1 /\ D[1].val[1][2] = 2
  /\ \E t \in Calls(1) : \E j \in Neurons(1) :
       /\ hist[1][t].xread[j] = W[1].val[1][j] + W[1].val[2][j]
       /\ FiredIn(1, 1, t - D[1].val[1][j])
       /\ FiredIn(1, 2, t - D[1].val[2][j])
       /\ D[1].val[1][j] # D[1].val[2][j]

\* ----------------------------------------------------------------------- C3
\* what the delay line owes neuron j in call t when connections with a delay
\* above Dmax deliver nothing
OwedInRange(e, j, t) ==
  SumSeq([i \in Neurons(e) |->
            IF D[e].val[i][j] <= DmaxArg(e) /\ FiredIn(e, i, t - D[e].val[i][j])
              THEN W[e].val[i][j] ELSE 0])

\* C3: a connection i -> j whose delay is greater than Dmax never delivers:
\* the accumulator value read for j in any update() call holds nothing from a
\* firing of i, so it is the sum over the connections with a delay of at most
\* Dmax alone.
C3_NeverDelivered ==
  (Configured(1) /\ AllDone(1))
  => \A t \in Calls(1) : \A j \in Neurons(1) : hist[1][t].xread[j] = OwedInRange(1, j, t)

\* ----------------------------------------------------------------------- C4
\* C4: the vector stored by setCurrent is the external input of the next
\* update() that computes an input current, which adds it to the accumulator
\* row it reads; that update() leaves the zero vector as pending current; no
\* other call changes the pending current, so of several setCurrent calls
\* before an update() the last one counts.
C4_OneShotCurrent ==
  [][ /\ (op'.name = "setCurrent" /\ op'.err = "none") => I'[1] = op'.arg.val
      /\ (op'.name = "setCurrent" /\ op'.err # "none") => I'[1] = I[1]
      /\ (op'.name = "update" /\ hist'[1] # hist[1])
           => /\ LastCall(1)'.itot =
                   [i \in Neurons(1) |-> I[1][i] + LastCall(1)'.xread[i]]
              /\ I'[1] = [i \in Neurons(1) |-> 0]
      /\ (op'.name = "update" /\ hist'[1] = hist[1]) => I'[1] = I[1]
      /\ op'.name \notin {"setCurrent", "update"} => I'[1] = I[1]
    ]_vars

\* two update() calls have returned: the first used the current set before
\* it, the second, with no setCurrent in between, used none
C4_Witness ==
  /\ Returned(1) /\ Len(hist[1]) = 2 /\ N[1] >= 1
  /\ hist[1][1].itot[1] = Drive + hist[1][1].xread[1]
  /\ hist[1][2].itot = hist[1][2].xread
  /\ I[1] = Zeros(N[1])

\* ----------------------------------------------------------------------- C5
\* neuron i fired in the last update() call, which returned
JustFired(e, i) == hist[e] # <<>> /\ LastCall(e).done /\ i \in LastCall(e).fired

\* this step is an update() of instance 1 that ran its loop, with no input
\* to neuron i
QuietUpdate(i) ==
  /\ op'.name = "update" /\ op'.err = "none" /\ hist'[1] # hist[1]
  /\ LastCall(1)'.itot[i] = 0

\* C5 as stated: when neuron i fired in call t and has no input in call t + 1,
\* the state read after call t + 1 has v[i] = c[i] and u[i] = its value after
\* call t plus d[i].
C5_ResetObserved ==
  [][ \A i \in Neurons(1) :
        (JustFired(1, i) /\ QuietUpdate(i))
          => v'[1][i] = c[1].val[i] /\ u'[1][i] = u[1][i] + d[1].val[i]
    ]_vars

\* the loop of lines 159-166 and line 173 for one neuron without input,
\* started from v = vi, u = ui
QuietMillisecond(vi, ui, ai, bi) ==
  LET fin == EulerTrace([v |-> <<vi>>, u |-> <<ui>>, fired |-> <<FALSE>>],
                        <<0>>, <<ai>>, <<bi>>, SubSteps)[SubSteps]
  IN [v |-> Clamp(fin.v, fin.fired)[1], u |-> fin.u[1]]

\* C5 as amended: in that case the state read after call t + 1 is the one the
\* ten Euler passes of call t + 1 reach from v[i] = c[i] and u[i] = its value
\* after call t plus d[i]; the reset values themselves are the state at the
\* start of call t + 1, before its integration.
C5_ResetThenIntegrate ==
  [][ \A i \in Neurons(1) :
        (JustFired(1, i) /\ QuietUpdate(i))
          => /\ v'[1][i] = QuietMillisecond(c[1].val[i], u[1][i] + d[1].val[i],
                                            a[1].val[i], b[1].val[i]).v
             /\ u'[1][i] = QuietMillisecond(c[1].val[i], u[1][i] + d[1].val[i],
                                            a[1].val[i], b[1].val[i]).u
    ]_vars

\* neuron 1 fired in the first call and had no input in the second, which
\* returned without it firing again
C5_Witness ==
  /\ Returned(1) /\ Len(hist[1]) = 2
  /\ hist[1][1].done /\ 1 \in hist[1][1].fired
  /\ hist[1][2].itot[1] = 0 /\ hist[1][2].fired = {}
  /\ v[1][1] # c[1].val[1]

\* ----------------------------------------------------------------------- C6
\* the neurons whose v was above 30 after some pass of the loop of the last call
Exceeded(e) ==
  { i \in Neurons(e) : \E k \in 1..Len(trace[e]) : trace[e][k].v[i] > Threshold * Scale }

Mask(e) == { i \in Neurons(e) : lastFired[e][i] }

\* C6: the set update() returns is the set of neurons whose v exceeded 30 at
\* some sub-step of the call and is the new last-fired mask; every neuron of
\* the mask has v exactly 30 and every other neuron v <= 30, in the state
\* update() leaves and in every state until the next update(), whatever
\* setters are called in between.
C6_FiringSetAndClamp ==
  /\ Returned(1) => op.ret = Exceeded(1) /\ op.ret = Mask(1)
  /\ \A i \in Neurons(1) :
       IF lastFired[1][i] THEN v[1][i] = Threshold * Scale
                          ELSE v[1][i] <= Threshold * Scale

\* update() returned neuron 1 and not neuron 2, and a setter has run since
C6_Witness ==
  /\ N[1] = 2 /\ Mask(1) = {1} /\ LastCall(1).done /\ LastCall(1).fired = {1}
  /\ op.name = "setCurrent" /\ op.err = "none"
  /\ \E k \in 1..SubSteps : trace[1][k].v[1] > Threshold * Scale + Scale

\* ----------------------------------------------------------------------- C7
Setters == {"setDelays", "setWeights", "setCurrent", "setParameters"}

\* the argument of call o on an engine of n neurons has the wrong size
WrongSize(o, n) ==
  CASE o.name \in {"setDelays", "setWeights"} ->
         Rows(o.arg.val) # n \/ \E i \in 1..Rows(o.arg.val) : Len(o.arg.val[i]) # n
    [] o.name = "setCurrent" -> Len(o.arg.val) # n
    [] o.name = "setParameters" -> \E k \in 1..4 : Len(o.arg.val[k]) # n
    [] OTHER -> FALSE

\* a delay matrix that is not of integer type or has an entry below 1
BadDelays(o) ==
  /\ o.name = "setDelays"
  /\ \/ o.arg.dtype # "int"
     \/ \E i \in 1..Rows(o.arg.val) : \E j \in 1..Len(o.arg.val[i]) : o.arg.val[i][j] < 1

\* C7: a setter called with an argument of the wrong size (setDelays: also
\* with a non-integer matrix or an entry < 1) raises, and a setter that raises
\* leaves every field of the engine as it was; setParameters replaces none of
\* the four vectors.
C7_FailedSetterNoChange ==
  [][ op'.name \in Setters
        => /\ (WrongSize(op', N[1]) \/ BadDelays(op')) => op'.err # "none"
           /\ op'.err # "none" => FieldsOfNext(1) = FieldsOf(1)
    ]_vars

\* setParameters raised on a configured engine that has fired
C7_Witness ==
  /\ op.name = "setParameters" /\ op.err # "none" /\ WrongSize(op, N[1])
  /\ Configured(1) /\ Mask(1) # {}

C9_ConstructionRejects ==
  \A e \in Insts : (N[e] < 1 \/ DmaxArg(e) < 0) => ~alive[e]

NotYetRun(e) == hist[e] = <<>>

\* C11: an engine that has been constructed and has had any setters called
\* on it, with or without success, but no update() yet, has v = -65 and u = -1
\* for every neuron, every row of the accumulator zero, the cursor at 0 and an
\* empty last-fired mask.
C11_InitialState ==
  (alive[1] /\ NotYetRun(1))
  => /\ \A i \in Neurons(1) : v[1][i] = -65 * Scale /\ u[1][i] = -1 * Scale
     /\ \A s \in DOMAIN X[1] : \A i \in Neurons(1) : X[1][s][i] = 0
     /\ cursor[1] = 0
     /\ Mask(1) = {}

\* weights, delays, parameters and a current have been stored and a setter
\* has just raised, before any update()
C11_Witness ==
  /\ Configured(1) /\ NotYetRun(1) /\ N[1] = 2 /\ Dmax[1] >= 2
  /\ I[1] # Zeros(N[1])
  /\ op.name \in Setters /\ op.err # "none"

\* ---------------------------------------------------------------------- C12
\* instance e is one neuron with (a, b, c, d) = (0.02, 0.2, -65, 8)
DefaultExcitatory(e) ==
  /\ alive[e] /\ N[e] = 1 /\ c[e].set
  /\ <<a[e].val, b[e].val, c[e].val, d[e].val>> = <<<<2>>, <<20>>, <<-65 * Scale>>, <<8 * Scale>>>>

\* every update() so far had a zero input current, external plus synaptic
NoInputSoFar(e) == \A t \in Calls(e) : hist[e][t].itot = <<0>>

\* C12: one isolated neuron with the default excitatory parameters, run from
\* the constructed state with no external and no synaptic input, is in no set
\* update() returns and has v below 30 after every sub-step and every call, in
\* the first 12 update() calls (and in the 13th).
C12_UndrivenNeverFires ==
  (DefaultExcitatory(1) /\ NoInputSoFar(1))
  => /\ \A t \in Calls(1) : hist[1][t].fired = {}
     /\ Returned(1) => op.ret = {}
     /\ \A k \in 1..Len(trace[1]) : trace[1][k].v[1] < Threshold * Scale
     /\ v[1][1] < Threshold * Scale

\* twelve update() calls without input have returned
C12_Witness ==
  /\ DefaultExcitatory(1) /\ NoInputSoFar(1)
  /\ Len(hist[1]) >= 12 /\ Returned(1) /\ AllDone(1)
  /\ v[1][1] < RestV * Scale

\* ---------------------------------------------------------------------- C13
\* setCurrent has been called before every update() so far, each time with
\* the same current, of 25 or more
DrivenSteadily(e) ==
  /\ log[e] # <<>>
  /\ \A k \in 1..Len(log[e]) :
       IF k % 2 = 1
         THEN /\ log[e][k].name = "setCurrent"
              /\ log[e][k].arg = log[e][1].arg
              /\ log[e][k].arg.val[1] >= 25 * Scale
         ELSE log[e][k].name = "update"

\* C13: one neuron with the default excitatory parameters that is given the
\* same external current of 25 or more before every update(), from the
\* constructed state on, is returned as fired by one of the first 3 update()
\* calls.
C13_DrivenFires ==
  (DefaultExcitatory(1) /\ DrivenSteadily(1) /\ Len(hist[1]) >= 3)
  => \E t \in 1..3 : hist[1][t].done /\ 1 \in hist[1][t].fired

\* with a current of exactly 25 the third update() has just returned the
\* neuron, the first two having returned nothing
C13_Witness ==
  /\ DefaultExcitatory(1) /\ DrivenSteadily(1)
  /\ log[1][1].arg.val[1] = 25 * Scale
  /\ Len(hist[1]) = 3 /\ Returned(1) /\ op.ret = {1}
  /\ hist[1][1].fired = {} /\ hist[1][2].fired = {}
  /\ v[1][1] = Threshold * Scale

\* ---------------------------------------------------------------------- C14
AllZero(Xe) == \A s \in DOMAIN Xe : \A j \in 1..Len(Xe[s]) : Xe[s][j] = 0

\* the last Dmax + 1 update() calls of instance e returned and no neuron
\* fired in any of them
QuietTail(e) ==
  /\ Len(hist[e]) >= Dmax[e]
  /\ \A t \in (Len(hist[e]) - Dmax[e] + 1)..Len(hist[e]) :
       hist[e][t].done /\ hist[e][t].fired = {}

\* C14: every update() call that reads the accumulator leaves the row it
\* read, the one at the cursor's position before the increment, all zero; and
\* after Dmax + 1 update() calls in a row in which no neuron fired, every row
\* of the accumulator is zero.
C14_ConsumedSlotCleared ==
  /\ [][ (op'.name = "update" /\ hist'[1] # hist[1])
           => \A j \in Neurons(1) : X'[1][cursor[1] % Dmax[1]][j] = 0
       ]_vars
  /\ [](QuietTail(1) => AllZero(X[1]))

\* in an engine of 3 rows a neuron fired, its spikes were read from the
\* accumulator during 3 calls in which no neuron fired, and the accumulator
\* is zero again
C14_Witness ==
  /\ Dmax[1] = 3 /\ QuietTail(1) /\ AllZero(X[1]) /\ Returned(1)
  /\ \E t \in Calls(1) : hist[1][t].fired # {}
  /\ \E t \in (Len(hist[1]) - 2)..Len(hist[1]) : \E j \in Neurons(1) : hist[1][t].xread[j] # 0

\* ---------------------------------------------------------------------- C15
\* the passes of the loop of the last update() of instance e that ran it
Passes(e) == 1..Len(trace[e])

\* C15: in the loop of one update() call, a neuron's fired flag is set after
\* pass k exactly when its v was above 30 after pass k or an earlier one, so
\* once set it stays set; a pass changes neither v nor u of a neuron whose
\* flag was set before it, and gives every other neuron the Euler step of
\* lines 164-165 computed from the neuron's v and u before the pass.
C15_FiredFreeze ==
  \A i \in Neurons(1) :
    /\ \A k \in Passes(1) :
         trace[1][k].fired[i] <=> \E h \in 1..k : trace[1][h].v[i] > Threshold * Scale
    /\ \A k \in Passes(1) \ {1} :
         IF trace[1][k - 1].fired[i]
           THEN /\ trace[1][k].fired[i]
                /\ trace[1][k].v[i] = trace[1][k - 1].v[i]
                /\ trace[1][k].u[i] = trace[1][k - 1].u[i]
           ELSE /\ trace[1][k].v[i] = trace[1][k - 1].v[i]
                     + DeltaV(trace[1][k - 1].v[i], trace[1][k - 1].u[i], LastCall(1).itot[i])
                /\ trace[1][k].u[i] = trace[1][k - 1].u[i]
                     + DeltaU(trace[1][k - 1].v[i], trace[1][k - 1].u[i],
                              a[1].val[i], b[1].val[i])

\* in one call neuron 1 crossed 30 before the last pass and neuron 2 never
\* did, its v changing in every pass
C15_Witness ==
  /\ N[1] = 2 /\ Len(trace[1]) = SubSteps
  /\ \E k \in 1..(SubSteps - 2) : trace[1][k].fired[1] /\ (k > 1 => ~trace[1][k - 1].fired[1])
  /\ ~trace[1][SubSteps].fired[2]
  /\ \A k \in 2..SubSteps : trace[1][k].v[2] # trace[1][k - 1].v[2]

\* ---------------------------------------------------------------------- C16
ConfigOf(e) == <<W[e], D[e], a[e], b[e], c[e], d[e]>>

ConfigOfNext(e) == <<W'[e], D'[e], a'[e], b'[e], c'[e], d'[e]>>

\* the update() calls of instance e that returned
ReturnedCalls(e) == { t \in Calls(e) : hist[e][t].done }

\* C16: no update() call, returning or raising, changes the weight matrix,
\* the delay matrix or the vectors a, b, c, d; an update() that returns has
\* increased the cursor by exactly 1 and one that raises has left it as it
\* was; so the cursor is the number of update() calls that have returned and
\* is never reset or reduced modulo the number of rows of the accumulator.
C16_UpdateFrame ==
  /\ [][ op'.name = "update"
           => /\ ConfigOfNext(1) = ConfigOf(1)
              /\ cursor'[1] = IF op'.err = "none" THEN cursor[1] + 1 ELSE cursor[1]
       ]_vars
  /\ [](alive[1] => cursor[1] = Cardinality(ReturnedCalls(1)))

\* the cursor has gone round an accumulator of 2 rows twice
C16_Witness ==
  /\ Configured(1) /\ Returned(1) /\ Dmax[1] = 2
  /\ cursor[1] = 2 * Dmax[1] + 1
  /\ Len(hist[1]) = cursor[1]

\* ---------------------------------------------------------------------- C17
\* v, u, the accumulator, the cursor and the last-fired mask of instance e,
\* with what the constructor fixed
DynamicsOf(e) == <<alive[e], N[e], Dmax[e], v[e], u[e], X[e], cursor[e], lastFired[e]>>

DynamicsOfNext(e) ==
  <<alive'[e], N'[e], Dmax'[e], v'[e], u'[e], X'[e], cursor'[e], lastFired'[e]>>

\* C17: a setter that succeeds, before the first update() or between two
\* update() calls, stores its argument in the field or fields it names
\* (setDelays: _D; setWeights: _W; setCurrent: _I; setParameters: _a, _b, _c,
\* _d) and leaves every other field as it was: v, u, the accumulator with the
\* deliveries pending in it, the cursor, the last-fired mask and the rest of
\* the configuration.
C17_SetterFrame ==
  [][ (op'.name \in Setters /\ op'.err = "none")
        => /\ DynamicsOfNext(1) = DynamicsOf(1)
           /\ D'[1] = IF op'.name = "setDelays" THEN [set |-> TRUE, val |-> op'.arg.val] ELSE D[1]
           /\ W'[1] = IF op'.name = "setWeights" THEN [set |-> TRUE, val |-> op'.arg.val] ELSE W[1]
           /\ I'[1] = IF op'.name = "setCurrent" THEN op'.arg.val ELSE I[1]
           /\ <<a'[1], b'[1], c'[1], d'[1]>> =
                IF op'.name = "setParameters"
                  THEN << [set |-> TRUE, val |-> op'.arg.val[1]],
                          [set |-> TRUE, val |-> op'.arg.val[2]],
                          [set |-> TRUE, val |-> op'.arg.val[3]],
                          [set |-> TRUE, val |-> op'.arg.val[4]] >>
                  ELSE <<a[1], b[1], c[1], d[1]>>
    ]_vars

\* new weights have been stored after an update() in which a neuron fired,
\* with its spikes still pending in the accumulator
C17_Witness ==
  /\ op.name = "setWeights" /\ op.err = "none" /\ W[1].val = op.arg.val
  /\ hist[1] # <<>> /\ Mask(1) # {} /\ cursor[1] >= 1
  /\ ~AllZero(X[1])

\* ---------------------------------------------------------------------- C18
\* the update() calls that reset neuron i at their start, and the calls but
\* the last that found it fired
ResetCalls(e, i) == { t \in Calls(e) : i \in hist[e][t].reset }

FiredCallsButLast(e, i) == { t \in Calls(e) \ {Len(hist[e])} : i \in hist[e][t].fired }

\* C18: lines 150-151 of update() call t + 1 change exactly the neurons found
\* fired by call t, the first call changes none, and a neuron they change gets
\* v = c and u = its value before the call plus d, once; so the mask of call
\* t is used by call t + 1 alone, a neuron that did not fire in call t is not
\* reset in call t + 1, and at any time the number of resets a neuron has had
\* is the number of calls but the last that returned it as fired (every call
\* that found a neuron fired having returned).
C18_OneResetPerFiring ==
  /\ [](\A t \in Calls(1) :
          hist[1][t].reset = IF t = 1 THEN {} ELSE hist[1][t - 1].fired)
  /\ [](\A i \in Neurons(1) :
          AllDone(1) => Cardinality(ResetCalls(1, i)) = Cardinality(FiredCallsButLast(1, i)))
  /\ [][ (op'.name = "update" /\ hist'[1] # hist[1])
           => \A i \in Neurons(1) :
                /\ LastCall(1)'.v0[i] =
                     IF i \in LastCall(1)'.reset THEN c[1].val[i] ELSE v[1][i]
                /\ LastCall(1)'.u0[i] =
                     IF i \in LastCall(1)'.reset THEN u[1][i] + d[1].val[i] ELSE u[1][i]
       ]_vars

\* neuron 1 fired in calls 1 and 4 and not in between: it was reset in call
\* 2, not in calls 3 and 4, and its second firing has not been reset yet
C18_Witness ==
  /\ Configured(1) /\ AllDone(1) /\ Len(hist[1]) = 4 /\ Returned(1)
  /\ 1 \in hist[1][1].fired /\ 1 \notin hist[1][2].fired /\ 1 \notin hist[1][3].fired
  /\ 1 \in hist[1][4].fired
  /\ ResetCalls(1, 1) = {2}
  /\ FiredCallsButLast(1, 1) = {1}

====
